---- MODULE Spec2Model ----
(***************************************************************************)
(* A model of rospkg/rospack.py: the resource index (snapshot reader and   *)
(* filesystem crawl), the memoized dependency closures of ManifestManager  *)
(* and RosPack, and expand_to_packages.                                    *)
(*                                                                         *)
(* Strings are sequences of one-character strings, so that prefix tests,   *)
(* slices, basename and join are computed character by character.          *)
(***************************************************************************)
EXTENDS Integers, Sequences, FiniteSets, TLC

VARIABLES
    fs,           \* the directory tree: path -> [dirs: listing order, files: set]
    cache_files,  \* the snapshot files in ROS_HOME: cache_name -> file
    disk,         \* the manifests on disk: directory -> manifest or Invalid
    rospack,      \* the RosPack instance
    rosstack,     \* the RosStack instance
    last,         \* the last call made on the instances and its outcome
    first_ret,    \* history: per name, the first set get_depends(name) returned
                  \* (in SpecIndexDrift: the first outcome of get_path(name))
                  \* and the number of changes of the world made before it
    drift         \* the number of changes made to the files on disk

vars == <<fs, cache_files, disk, rospack, rosstack, last, first_ret, drift>>

\* what the calls on the instances leave alone
world == <<fs, cache_files, disk, drift>>

(***************************************************************************)
(* Bounds of the model.                                                    *)
(***************************************************************************)
MaxLines == 3
MaxDeps == 2
MaxNames == 2
MaxDrift == 1

(***************************************************************************)
(* Strings, paths and maps.                                                *)
(***************************************************************************)
MANIFEST_FILE == "manifest.xml"
STACK_FILE == "stack.xml"
NOSUBDIRS_FILE == "rospack_nosubdirs"

Slash == "/"
Hash == "#"
Dot == "."

RootHeader == <<"#", "R", "O", "S", "_", "R", "O", "O", "T", "=">>
PathHeader == <<"#", "R", "O", "S", "_", "P", "A", "C", "K", "A", "G", "E", "_",
                "P", "A", "T", "H", "=">>

EmptyMap == [k \in {} |-> <<>>]

Put(m, k, v) == [x \in DOMAIN m \cup {k} |-> IF x = k THEN v ELSE m[x]]

Range(s) == {s[i] : i \in DOMAIN s}

\* s[:-1]
DropLast(s) == IF Len(s) = 0 THEN s ELSE SubSeq(s, 1, Len(s) - 1)

\* s.startswith(p)
StartsWith(s, p) == Len(s) >= Len(p) /\ SubSeq(s, 1, Len(p)) = p

\* s[len(p):]
After(s, p) == SubSeq(s, Len(p) + 1, Len(s))

\* the position of the last "/" of p, 0 when it has none
LastSlash(p) ==
    LET at == {i \in DOMAIN p : p[i] = Slash}
    IN IF at = {} THEN 0 ELSE CHOOSE i \in at : \A j \in at : j <= i

\* os.path.basename
Basename(p) == SubSeq(p, LastSlash(p) + 1, Len(p))

\* os.path.join(d, name), name relative
Join(d, name) ==
    IF Len(d) > 0 /\ d[Len(d)] # Slash THEN d \o <<Slash>> \o name ELSE d \o name

RECURSIVE AbsPath(_)
\* os.path.abspath of an absolute path: trailing separators are dropped
AbsPath(p) ==
    IF Len(p) > 1 /\ p[Len(p)] = Slash THEN AbsPath(DropLast(p)) ELSE p

\* p consists of separators only
AllSlashes(p) == \A i \in DOMAIN p : p[i] = Slash

RECURSIVE StripSlashes(_)
\* p.rstrip('/')
StripSlashes(p) ==
    IF Len(p) > 0 /\ p[Len(p)] = Slash THEN StripSlashes(DropLast(p)) ELSE p

\* the part of p up to and including its last separator
PathHead(p) == SubSeq(p, 1, LastSlash(p))

\* os.path.dirname
Dirname(p) ==
    IF Len(PathHead(p)) > 0 /\ ~AllSlashes(PathHead(p)) THEN StripSlashes(PathHead(p))
    ELSE PathHead(p)

(***************************************************************************)
(* list_by_path: the crawl of one root.                                    *)
(***************************************************************************)
IsHidden(di) == di[1] = Dot

RemoveAt(s, i) == SubSeq(s, 1, i - 1) \o SubSeq(s, i + 1, Len(s))

RECURSIVE RemoveHidden(_, _)
\* [dirs.remove(di) for di in dirs if di[0] == '.']: the list is changed while
\* it is iterated, so the entry that moves into a removed place is not looked at
RemoveHidden(dirs, i) ==
    IF i > Len(dirs) THEN dirs
    ELSE IF IsHidden(dirs[i]) THEN RemoveHidden(RemoveAt(dirs, i), i + 1)
    ELSE RemoveHidden(dirs, i + 1)

\* a mutant of RecordResource: an entry the cache already holds is kept
RecordResourceKeepFirst(st, d) ==
    IF Basename(d) \notin Range(st.resources)
    THEN [resources |-> Append(st.resources, Basename(d)),
          cache |-> IF Basename(d) \in DOMAIN st.cache THEN st.cache
                    ELSE Put(st.cache, Basename(d), d)]
    ELSE st

\* the directory d holds the target marker; st = [resources, cache]
RecordResource(st, d) ==
    IF Basename(d) \notin Range(st.resources)
    THEN [resources |-> Append(st.resources, Basename(d)),
          cache |-> Put(st.cache, Basename(d), d)]
    ELSE st

RECURSIVE Walk(_, _, _)
RECURSIVE WalkDirs(_, _, _, _, _)
\* a mutant of Walk: a directory holding the generic resource marker is not
\* a leaf
WalkThroughManifest(manifest_name, d, st) ==
    IF d \notin DOMAIN fs THEN st
    ELSE IF manifest_name \in fs[d].files THEN RecordResource(st, d)
    ELSE IF NOSUBDIRS_FILE \in fs[d].files THEN st
    ELSE WalkDirs(manifest_name, d, RemoveHidden(fs[d].dirs, 1), 1, st)

\* one directory of os.walk(path, topdown=True) and the loop body run on it
Walk(manifest_name, d, st) ==
    IF d \notin DOMAIN fs THEN st
    ELSE IF manifest_name \in fs[d].files THEN RecordResource(st, d)
    ELSE IF MANIFEST_FILE \in fs[d].files THEN st
    ELSE IF NOSUBDIRS_FILE \in fs[d].files THEN st
    ELSE WalkDirs(manifest_name, d, RemoveHidden(fs[d].dirs, 1), 1, st)

WalkDirs(manifest_name, d, dirs, i, st) ==
    IF i > Len(dirs) THEN st
    ELSE WalkDirs(manifest_name, d, dirs, i + 1,
                  Walk(manifest_name, Join(d, dirs[i]), st))

ListByPath(manifest_name, path, cache) ==
    Walk(manifest_name, AbsPath(path), [resources |-> <<>>, cache |-> cache])

(***************************************************************************)
(* _read_rospack_cache: the snapshot reader.                               *)
(***************************************************************************)
\* f.readlines(): every line keeps its "\n", but the last one of a file that
\* does not end in a newline
ReadLines(file) ==
    [i \in DOMAIN file.lines |->
        IF i < Len(file.lines) \/ file.eof_newline
        THEN Append(file.lines[i], "\n") ELSE file.lines[i]]

RECURSIVE ReadCacheLines(_, _, _, _, _, _, _)
\* the loop over the lines; rv, pv: ros_root_validated, ros_package_path_validated
ReadCacheLines(lines, i, cache, ros_root, ros_package_path, rv, pv) ==
    IF i > Len(lines) THEN
        [ok |-> rv /\ pv, cache |-> cache]
    ELSE LET l == DropLast(lines[i]) IN
        IF Len(l) = 0 THEN
            ReadCacheLines(lines, i + 1, cache, ros_root, ros_package_path, rv, pv)
        ELSE IF l[1] = Hash THEN
            IF StartsWith(l, RootHeader) THEN
                IF After(l, RootHeader) # ros_root
                THEN [ok |-> FALSE, cache |-> cache]
                ELSE ReadCacheLines(lines, i + 1, cache, ros_root, ros_package_path,
                                    TRUE, pv)
            ELSE IF StartsWith(l, PathHeader) THEN
                IF After(l, PathHeader) # ros_package_path
                THEN [ok |-> FALSE, cache |-> cache]
                ELSE ReadCacheLines(lines, i + 1, cache, ros_root, ros_package_path,
                                    rv, TRUE)
            ELSE ReadCacheLines(lines, i + 1, cache, ros_root, ros_package_path, rv, pv)
        ELSE ReadCacheLines(lines, i + 1, Put(cache, Basename(l), l),
                            ros_root, ros_package_path, rv, pv)

ReadRospackCache(cache_name, cache, ros_root, ros_package_path) ==
    IF ~cache_files[cache_name].exists THEN [ok |-> FALSE, cache |-> cache]
    ELSE ReadCacheLines(ReadLines(cache_files[cache_name]), 1, cache,
                        ros_root, ros_package_path, FALSE, FALSE)

(***************************************************************************)
(* ManifestManager.  An instance is a record of its fields; an operation   *)
(* yields [self, ret, exc]: the instance after the call, the value         *)
(* returned and the exception raised (NoExc when the call returns).        *)
(***************************************************************************)
NoExc == "none"
ResourceNotFound == "ResourceNotFound"
InvalidManifest == "InvalidManifest"

Returns(self, ret) == [self |-> self, ret |-> ret, exc |-> NoExc]
Raises(self, exc) == [self |-> self, ret |-> {}, exc |-> exc]

\* __init__; package_paths is what compute_package_paths gives for the
\* configured root and path list, in the order it gives them
ManifestManager(manifest_name, cache_name, cfg) ==
    [manifest_name |-> manifest_name,
     cache_name |-> cache_name,
     ros_root |-> cfg.ros_root,
     ros_package_path |-> cfg.ros_package_path,
     package_paths |-> cfg.package_paths,
     manifests |-> EmptyMap,
     depends_cache |-> EmptyMap,
     rosdeps_cache |-> EmptyMap,
     location_cache |-> [isNone |-> TRUE, map |-> EmptyMap],
     expansions |-> EmptyMap]

\* compute_package_paths(self._ros_root, self._ros_package_path)
ComputePackagePaths(self) == self.package_paths

RECURSIVE CrawlPaths(_, _, _, _)
\* for path in compute_package_paths(...): list_by_path(manifest_name, path, cache)
CrawlPaths(manifest_name, paths, i, cache) ==
    IF i > Len(paths) THEN cache
    ELSE CrawlPaths(manifest_name, paths, i + 1,
                    ListByPath(manifest_name, paths[i], cache).cache)

\* what follows the snapshot reader's answer r = [ok, cache]: the dictionary
\* the reader wrote into is the one that is kept, or crawled into
BuildLocationCache(self, r) ==
    IF r.ok THEN
        [self EXCEPT !.location_cache = [isNone |-> FALSE, map |-> r.cache]]
    ELSE
        [self EXCEPT !.location_cache =
            [isNone |-> FALSE,
             map |-> CrawlPaths(self.manifest_name, ComputePackagePaths(self),
                                1, r.cache)]]

\* a mutant of UpdateLocationCache: the index is built anew at every call
UpdateLocationCacheRebuild(self) ==
    IF Len(self.package_paths) = 0 THEN
        [self EXCEPT !.location_cache = [isNone |-> FALSE, map |-> EmptyMap]]
    ELSE BuildLocationCache(self,
            ReadRospackCache(self.cache_name, EmptyMap,
                             self.ros_root, self.ros_package_path))

UpdateLocationCache(self) ==
    IF ~self.location_cache.isNone THEN self
    ELSE IF Len(self.package_paths) = 0 THEN
        [self EXCEPT !.location_cache = [isNone |-> FALSE, map |-> EmptyMap]]
    ELSE BuildLocationCache(self,
            ReadRospackCache(self.cache_name, EmptyMap,
                             self.ros_root, self.ros_package_path))

\* return self._location_cache.keys()
LocationKeys(self) == Returns(self, DOMAIN self.location_cache.map)

\* list()
List(self) == LocationKeys(UpdateLocationCache(self))

\* the lookup of get_path, on the instance whose index is built
LookupPath(self, name) ==
    IF name \notin DOMAIN self.location_cache.map
    THEN Raises(self, ResourceNotFound)
    ELSE Returns(self, self.location_cache.map[name])

GetPath(self, name) == LookupPath(UpdateLocationCache(self), name)

\* parse_manifest_file(path, manifest_name): the manifest the directory holds
ParseManifestFile(path) ==
    IF path \in DOMAIN disk /\ disk[path].valid
    THEN [ok |-> TRUE, manifest |-> disk[path]]
    ELSE [ok |-> FALSE, manifest |-> <<>>]

\* retval = self._manifests[name] = m, or the parser's InvalidManifest
StoreManifest(self, name, m) ==
    IF ~m.ok THEN Raises(self, InvalidManifest)
    ELSE Returns([self EXCEPT !.manifests = Put(@, name, m.manifest)], m.manifest)

\* parse_manifest_file(p, ...) for the outcome p of get_path(name)
ParseAt(p, name) ==
    IF p.exc # NoExc THEN p
    ELSE StoreManifest(p.self, name, ParseManifestFile(p.ret))

LoadManifest(self, name) == ParseAt(GetPath(self, name), name)

GetManifest(self, name) ==
    IF name \in DOMAIN self.manifests
    THEN Returns(self, self.manifests[name])
    ELSE LoadManifest(self, name)

\* [d.name for d in m.depends] for the outcome m of get_manifest
DependsOf(m) == IF m.exc # NoExc THEN m ELSE Returns(m.self, m.ret.depends)

\* get_depends(name, implicit=False)
DirectDepends(self, name) == DependsOf(GetManifest(self, name))

\* s.update(added) on the set that self._depends_cache[name] holds
UpdateDepends(self, name, added) ==
    [self EXCEPT !.depends_cache[name].val = @ \cup added]

\* self._depends_cache[name] = s = set()
RegisterDepends(self, name) ==
    [self EXCEPT !.depends_cache = Put(@, name, [final |-> FALSE, val |-> {}]),
                 !.expansions = Put(@, name,
                     IF name \in DOMAIN @ THEN @[name] + 1 ELSE 1)]

\* s = list(s); self._depends_cache[name] = s
StoreDepends(self, name) ==
    [self EXCEPT !.depends_cache[name].final = TRUE]

\* a mutant of FinishDepends: the resource's own dependencies are not added
FinishDependsWithoutOwn(self, name, names) ==
    StoreDepends(self, name)

\* s.update(names); s = list(s); self._depends_cache[name] = s
FinishDepends(self, name, names) ==
    StoreDepends(UpdateDepends(self, name, Range(names)), name)

\* return s
ReturnDepends(self, name) == Returns(self, self.depends_cache[name].val)

\* name in self._depends_cache
CachedDepends(self, name) ==
    name \in DOMAIN self.depends_cache

RECURSIVE ImplicitDepends(_, _)
RECURSIVE ExpandDepends(_, _)
RECURSIVE DependsLoop(_, _, _, _)
RECURSIVE MergeDepends(_, _, _, _)
\* get_depends(name, implicit=True)
ImplicitDepends(self, name) ==
    IF CachedDepends(self, name)
    THEN ReturnDepends(self, name)
    ELSE ExpandDepends(GetManifest(self, name), name)

\* names = [p.name for p in m.depends] for the outcome m of get_manifest,
\* the placeholder, and the loop
ExpandDepends(m, name) ==
    IF m.exc # NoExc THEN m
    ELSE DependsLoop(RegisterDepends(m.self, name), name, m.ret.depends, 1)

\* for p in names: s.update(self.get_depends(p, implicit)), and what follows
DependsLoop(self, name, names, i) ==
    IF i > Len(names) THEN ReturnDepends(FinishDepends(self, name, names), name)
    ELSE MergeDepends(ImplicitDepends(self, names[i]), name, names, i)

\* s.update(r) for the outcome r of the recursive call; its exception ends
\* the loop
MergeDepends(r, name, names, i) ==
    IF r.exc # NoExc THEN r
    ELSE DependsLoop(UpdateDepends(r.self, name, r.ret), name, names, i + 1)

\* a mutant of GetDepends: every query starts from empty manifest and closure
\* caches
GetDependsUncached(self, name, implicit) ==
    IF implicit
    THEN ImplicitDepends([self EXCEPT !.manifests = EmptyMap,
                                      !.depends_cache = EmptyMap], name)
    ELSE DirectDepends([self EXCEPT !.manifests = EmptyMap], name)

GetDepends(self, name, implicit) ==
    IF implicit THEN ImplicitDepends(self, name) ELSE DirectDepends(self, name)

(***************************************************************************)
(* RosPack.                                                                *)
(***************************************************************************)
RosPack(cfg) == ManifestManager(MANIFEST_FILE, "rospack_cache", cfg)

\* [d.name for d in m.rosdeps] for the outcome m of get_manifest
RosdepsOfManifest(m) == IF m.exc # NoExc THEN m ELSE Returns(m.self, m.ret.rosdeps)

\* get_rosdeps(package, implicit=False)
DirectRosdeps(self, package) == RosdepsOfManifest(GetManifest(self, package))

\* s.update(added) on the set that self._rosdeps_cache[package] holds
UpdateRosdeps(self, package, added) ==
    [self EXCEPT !.rosdeps_cache[package].val = @ \cup added]

\* self._rosdeps_cache[package] = s = set()
RegisterRosdeps(self, package) ==
    [self EXCEPT !.rosdeps_cache = Put(@, package, [final |-> FALSE, val |-> {}])]

\* s = list(s); self._rosdeps_cache[package] = s; return s
StoreRosdeps(self, package) ==
    Returns([self EXCEPT !.rosdeps_cache[package].final = TRUE],
            self.rosdeps_cache[package].val)

\* m = self.get_manifest(package); s.update([d.name for d in m.rosdeps]), for
\* the outcome m of get_manifest
AddOwnRosdeps(m, package) ==
    IF m.exc # NoExc THEN m
    ELSE StoreRosdeps(UpdateRosdeps(m.self, package, Range(m.ret.rosdeps)), package)

RECURSIVE RosdepsLoop(_, _, _)
RECURSIVE MergeRosdeps(_, _, _, _)
\* for p in packages: s.update(self.get_rosdeps(p, implicit=False)), and what
\* follows; todo is the part of packages still to visit.  Every member of a
\* set get_depends returns has its manifest loaded, so no visit raises and the
\* order of the visits does not show.
RosdepsLoop(self, package, todo) ==
    IF todo = {} THEN AddOwnRosdeps(GetManifest(self, package), package)
    ELSE MergeRosdeps(DirectRosdeps(self, CHOOSE x \in todo : TRUE), package,
                      todo, CHOOSE x \in todo : TRUE)

MergeRosdeps(r, package, todo, p) ==
    IF r.exc # NoExc THEN r
    ELSE RosdepsLoop(UpdateRosdeps(r.self, package, Range(r.ret)), package,
                     todo \ {p})

\* packages = self.get_depends(package, implicit=True), for its outcome d
RosdepsOver(d, package) ==
    IF d.exc # NoExc THEN d ELSE RosdepsLoop(d.self, package, d.ret)

ImplicitRosdeps(self, package) ==
    IF package \in DOMAIN self.rosdeps_cache
    THEN Returns(self, self.rosdeps_cache[package].val)
    ELSE RosdepsOver(GetDepends(RegisterRosdeps(self, package), package, TRUE),
                     package)

GetRosdeps(self, package, implicit) ==
    IF implicit THEN ImplicitRosdeps(self, package) ELSE DirectRosdeps(self, package)

\* os.path.exists(os.path.join(d, f)) for a marker file f
FileExists(d, f) == AbsPath(d) \in DOMAIN fs /\ f \in fs[AbsPath(d)].files

\* what stack_of returns: None, or a name
None == <<>>
Some(name) == <<name>>

\* a mutant of Climb: only the package directory itself is looked at
ClimbSelfOnly(d) ==
    IF Len(d) > 0 /\ Dirname(d) # d /\ FileExists(d, STACK_FILE)
    THEN Some(Basename(d)) ELSE None

RECURSIVE Climb(_)
\* while d and os.path.dirname(d) != d: ...; falling off the loop returns None
Climb(d) ==
    IF Len(d) = 0 \/ Dirname(d) = d THEN None
    ELSE IF FileExists(d, STACK_FILE) THEN Some(Basename(d))
    ELSE Climb(Dirname(d))

\* the loop of stack_of for the outcome p of get_path(package)
ClimbFrom(p) == IF p.exc # NoExc THEN p ELSE Returns(p.self, Climb(p.ret))

\* stack_of(package)
StackOf(self, package) == ClimbFrom(GetPath(self, package))

(***************************************************************************)
(* RosStack and expand_to_packages.                                        *)
(***************************************************************************)
RosStack(cfg) == ManifestManager(STACK_FILE, "rosstack_cache", cfg)

\* list_by_path(MANIFEST_FILE, p, {}) for the outcome p of get_path(stack)
PackagesUnder(p) ==
    IF p.exc # NoExc THEN p
    ELSE Returns(p.self, ListByPath(MANIFEST_FILE, p.ret, EmptyMap).resources)

PackagesOf(self, stack) == PackagesUnder(GetPath(self, stack))

(***************************************************************************)
(* get_stack_version_by_dir and _get_cmake_version.  The text of           *)
(* CMakeLists.txt is held as the list of its lines, text.split('\n').      *)
(***************************************************************************)
CMAKE_FILE == "CMakeLists.txt"

\* 'rosbuild_make_distribution'
Statement ==
    <<"r", "o", "s", "b", "u", "i", "l", "d", "_", "m", "a", "k", "e", "_",
      "d", "i", "s", "t", "r", "i", "b", "u", "t", "i", "o", "n">>

Space == " "
LParen == "("
RParen == ")"
ValueError == "ValueError"

RECURSIVE LStrip(_)
LStrip(l) == IF Len(l) > 0 /\ l[1] = Space THEN LStrip(Tail(l)) ELSE l

RECURSIVE RStrip(_)
RStrip(l) == IF Len(l) > 0 /\ l[Len(l)] = Space THEN RStrip(DropLast(l)) ELSE l

\* l.strip()
Strip(l) == RStrip(LStrip(l))

\* the position of the first parenthesis of l, 0 when it has none
FirstParen(l) ==
    IF \E i \in DOMAIN l : l[i] \in {LParen, RParen}
    THEN CHOOSE i \in DOMAIN l :
            /\ l[i] \in {LParen, RParen}
            /\ \A j \in 1..(i - 1) : l[j] \notin {LParen, RParen}
    ELSE 0

RECURSIVE SplitParensAt(_, _)
\* re.compile(r'[()]').split(l), i the position of the first parenthesis
SplitParensAt(l, i) ==
    IF i = 0 THEN <<l>>
    ELSE <<SubSeq(l, 1, i - 1)>>
            \o SplitParensAt(SubSeq(l, i + 1, Len(l)),
                             FirstParen(SubSeq(l, i + 1, Len(l))))

SplitParens(l) == SplitParensAt(l, FirstParen(l))

\* the outcome of a function that has no instance
Result(ret) == [ret |-> ret, exc |-> NoExc]
Failure(exc) == [ret |-> None, exc |-> exc]

\* version = lsplit[1]; return it, or raise ValueError
VersionOfSplit(lsplit) ==
    IF Len(lsplit) < 2 THEN Failure(ValueError)
    ELSE IF Len(lsplit[2]) > 0 THEN Result(Some(lsplit[2]))
    ELSE Failure(ValueError)

RECURSIVE CmakeVersionFrom(_, _)
\* the loop of _get_cmake_version from line i on; None when it falls off
CmakeVersionFrom(lines, i) ==
    IF i > Len(lines) THEN Result(None)
    ELSE IF StartsWith(Strip(lines[i]), Statement)
         THEN VersionOfSplit(SplitParens(Strip(lines[i])))
    ELSE CmakeVersionFrom(lines, i + 1)

\* _get_cmake_version(text)
GetCmakeVersion(lines) == CmakeVersionFrom(lines, 1)

\* a mutant of CatchValueError: the error passes through
PassValueError(r) == r

\* try: return ... except ValueError: return None
CatchValueError(r) == IF r.exc = ValueError THEN Result(None) ELSE r

\* os.path.isfile(os.path.join(stack_dir, f))
IsFile(stack_dir, f) == stack_dir \in DOMAIN fs /\ f \in fs[stack_dir].files

\* f.read() of CMakeLists.txt in stack_dir
CmakeText(stack_dir) == disk[Append(stack_dir, CMAKE_FILE)].text

\* the CMakeLists.txt half of get_stack_version_by_dir
VersionFromCmake(stack_dir) ==
    IF IsFile(stack_dir, CMAKE_FILE)
    THEN CatchValueError(GetCmakeVersion(CmakeText(stack_dir)))
    ELSE Result(None)

\* if m.version: return m.version, for the outcome m of parse_manifest_file
VersionOfManifest(m, stack_dir) ==
    IF ~m.ok THEN Failure(InvalidManifest)
    ELSE IF Len(m.manifest.version) > 0 THEN Result(Some(m.manifest.version))
    ELSE VersionFromCmake(stack_dir)

GetStackVersionByDir(stack_dir) ==
    IF IsFile(stack_dir, STACK_FILE)
    THEN VersionOfManifest(ParseManifestFile(stack_dir), stack_dir)
    ELSE VersionFromCmake(stack_dir)

\* get_stack_version_by_dir(p) for the outcome p of get_path(stack)
VersionAt(p) ==
    IF p.exc # NoExc THEN p
    ELSE [self |-> p.self] @@ GetStackVersionByDir(p.ret)

\* RosStack.get_stack_version(stack)
GetStackVersion(self, stack) == VersionAt(GetPath(self, stack))

\* valid.extend(...) or, on ResourceNotFound, invalid.append(n), for the
\* outcome r of rosstack.packages_of(n)
ExtendValid(r, n, valid, invalid) ==
    IF r.exc = ResourceNotFound
    THEN [rosstack |-> r.self, valid |-> valid, invalid |-> Append(invalid, n)]
    ELSE [rosstack |-> r.self, valid |-> valid \o r.ret, invalid |-> invalid]

\* a mutant of ExpandName: the name is tried as a stack before it is looked
\* up among the packages
ExpandNameStackFirst(n, package_list, rs, valid, invalid) ==
    IF n \in DOMAIN UpdateLocationCache(rs).location_cache.map \/ n \notin package_list
    THEN ExtendValid(PackagesOf(rs, n), n, valid, invalid)
    ELSE [rosstack |-> rs, valid |-> Append(valid, n), invalid |-> invalid]

\* the loop body for one name n; yields [rosstack, valid, invalid]
ExpandName(n, package_list, rs, valid, invalid) ==
    IF n \notin package_list
    THEN ExtendValid(PackagesOf(rs, n), n, valid, invalid)
    ELSE [rosstack |-> rs, valid |-> Append(valid, n), invalid |-> invalid]

RECURSIVE ExpandLoop(_, _, _, _)
RECURSIVE ExpandNext(_, _, _, _)
\* for n in names; acc = [rosstack, valid, invalid]
ExpandLoop(names, i, package_list, acc) ==
    IF i > Len(names) THEN acc
    ELSE ExpandNext(names, i, package_list,
                    ExpandName(names[i], package_list, acc.rosstack,
                               acc.valid, acc.invalid))

ExpandNext(names, i, package_list, acc) ==
    ExpandLoop(names, i + 1, package_list, acc)

\* the loop of expand_to_packages for the outcome l of rospack.list()
ExpandOver(names, l, rs) ==
    [rospack |-> l.self,
     result |-> ExpandLoop(names, 1, l.ret,
                           [rosstack |-> rs, valid |-> <<>>, invalid |-> <<>>])]

\* expand_to_packages(names, rospack, rosstack), names a list
ExpandToPackages(names, rp, rs) == ExpandOver(names, List(rp), rs)

(***************************************************************************)
(* The worlds the instances run in.                                        *)
(***************************************************************************)
DirA == <<"/", "a">>
DirB == <<"/", "b">>
NameP == <<"p">>
NameQ == <<"q">>
NameZ == <<"z">>

NoFile == [exists |-> FALSE, lines |-> <<>>, eof_newline |-> TRUE]
NoCacheFiles == [n \in {"rospack_cache", "rosstack_cache"} |-> NoFile]

NoCall == [op |-> "none", arg |-> <<>>, ret |-> {}, exc |-> NoExc]

Call(op, arg, r) == [op |-> op, arg |-> arg, ret |-> r.ret, exc |-> r.exc]

\* the instance and the record of the call after a call on rospack with
\* outcome r
RospackCalled(op, arg, r) ==
    /\ rospack' = r.self
    /\ last' = Call(op, arg, r)

\* sequences over S of length at most n
SeqsUpTo(S, n) == UNION {[1..k -> S] : k \in 0..n}

\* the lists over S of length at most n that name nothing twice
ListsUpTo(S, n) ==
    {q \in SeqsUpTo(S, n) : \A i, j \in DOMAIN q : q[i] = q[j] => i = j}

\* a directory that holds the given files and no subdirectory
Leaf(files) == [dirs |-> <<>>, files |-> files]

\* the tree whose roots list, in the given order, package directories
FlatTree(listing) ==
    [d \in DOMAIN listing
           \cup UNION {{Join(r, listing[r][i]) : i \in DOMAIN listing[r]} :
                          r \in DOMAIN listing}
     |-> IF d \in DOMAIN listing
         THEN [dirs |-> listing[d], files |-> {}]
         ELSE Leaf({MANIFEST_FILE})]

\* The configurations: the root, the path list, and the search directories
\* compute_package_paths derives from them, in the order it gives them.
IndexConfigs ==
    {[ros_root |-> DirA, ros_package_path |-> DirB, package_paths |-> <<DirA, DirB>>],
     [ros_root |-> DirA, ros_package_path |-> DirB, package_paths |-> <<DirB, DirA>>],
     [ros_root |-> <<>>, ros_package_path |-> <<>>, package_paths |-> <<>>]}

\* the lines a snapshot may hold
SnapshotLines ==
    {RootHeader \o DirA,  RootHeader \o <<"/", "x">>,
     PathHeader \o DirB,
     <<"/", "o", "/", "z">>, <<"/", "o", "/", "p">>,
     <<>>}

\* a file that does not end in a newline ends in a line that is not empty
SnapshotFiles ==
    {NoFile} \cup
    {f \in [exists : {TRUE}, lines : SeqsUpTo(SnapshotLines, MaxLines),
            eof_newline : BOOLEAN] :
        f.eof_newline \/ (Len(f.lines) > 0 /\ Len(f.lines[Len(f.lines)]) > 0)}

IndexListings ==
    [{DirA, DirB} -> {<<>>, <<NameP>>, <<NameP, NameQ>>}]

(***************************************************************************)
(* SpecIndex: one RosPack instance, its snapshot file and its roots.       *)
(***************************************************************************)
InitIndex ==
    /\ \E listing \in IndexListings : fs = FlatTree(listing)
    /\ \E f \in SnapshotFiles :
          cache_files = [NoCacheFiles EXCEPT !["rospack_cache"] = f]
    /\ disk = EmptyMap
    /\ \E cfg \in IndexConfigs :
          /\ rospack = RosPack(cfg)
          /\ rosstack = RosStack(cfg)
    /\ last = NoCall
    /\ first_ret = EmptyMap
    /\ drift = 0

\* rospack.list()
DoList ==
    /\ rospack' = List(rospack).self
    /\ last' = [op |-> "list", arg |-> <<>>,
                ret |-> DOMAIN rospack'.location_cache.map, exc |-> NoExc]
    /\ UNCHANGED <<world, rosstack, first_ret>>

\* rospack.get_path(name)
DoGetPath ==
    \E name \in {NameP, NameZ} :
        /\ rospack' = UpdateLocationCache(rospack)
        /\ last' = [op |-> "get_path", arg |-> name,
                    ret |-> LookupPath(rospack', name).ret,
                    exc |-> LookupPath(rospack', name).exc]
        /\ UNCHANGED <<world, rosstack, first_ret>>

\* the record of a call of the snapshot reader with answer r
CacheRead(r) == [op |-> "read_cache", arg |-> r.cache, ret |-> r.ok, exc |-> NoExc]

\* _read_rospack_cache(cache_name, {}, ros_root, ros_package_path), called with
\* the instance's configuration and an empty dictionary
DoReadCache ==
    /\ last' = CacheRead(ReadRospackCache(rospack.cache_name, EmptyMap,
                                          rospack.ros_root, rospack.ros_package_path))
    /\ UNCHANGED <<world, rospack, rosstack, first_ret>>

NextIndex == DoList \/ DoGetPath \/ DoReadCache

SpecIndex == InitIndex /\ [][NextIndex]_vars

(***************************************************************************)
(* Claims about the index (SpecIndex).                                     *)
(***************************************************************************)
Built == ~rospack.location_cache.isNone
Index == rospack.location_cache.map

SnapshotAccepted ==
    ReadRospackCache(rospack.cache_name, EmptyMap,
                     rospack.ros_root, rospack.ros_package_path).ok

\* the index was built, and built by crawling the configured roots
BuiltByCrawl == Built /\ Len(rospack.package_paths) > 0 /\ ~SnapshotAccepted

\* what a crawl of one root alone finds: name -> directory
FoundUnder(root) == ListByPath(rospack.manifest_name, root, EmptyMap).cache

\* name is found under the i-th crawled root and under no root crawled later
LastHolder(name, i) ==
    /\ name \in DOMAIN FoundUnder(rospack.package_paths[i])
    /\ \A j \in DOMAIN rospack.package_paths :
          j > i => name \notin DOMAIN FoundUnder(rospack.package_paths[j])

\* C1 as stated: when the index is built by crawling and a name is found under
\* two roots, the one crawled first keeps the name: the index maps the name to
\* the directory under the earlier root.
C1_EarlierRootKept ==
    BuiltByCrawl =>
        \A i, j \in DOMAIN rospack.package_paths :
            \A name \in DOMAIN FoundUnder(rospack.package_paths[i])
                        \cap DOMAIN FoundUnder(rospack.package_paths[j]) :
                i < j => Index[name] = FoundUnder(rospack.package_paths[i])[name]

\* C1 amended: when the index is built by crawling, a name found under several
\* roots maps to the directory under the root crawled last among them (an
\* earlier root's entry is overwritten), and path(name) returns that directory.
C1_LaterRootWins ==
    BuiltByCrawl =>
        \A i \in DOMAIN rospack.package_paths :
            \A name \in DOMAIN FoundUnder(rospack.package_paths[i]) :
                LastHolder(name, i) =>
                    /\ name \in DOMAIN Index
                    /\ Index[name] = FoundUnder(rospack.package_paths[i])[name]
                    /\ (last.op = "get_path" /\ last.arg = name) =>
                           /\ last.exc = NoExc
                           /\ last.ret = FoundUnder(rospack.package_paths[i])[name]

\* path(p) has returned on an index built by crawling two roots that both
\* hold p
C1_Witness ==
    /\ BuiltByCrawl
    /\ Len(rospack.package_paths) = 2
    /\ NameP \in DOMAIN FoundUnder(rospack.package_paths[1])
    /\ NameP \in DOMAIN FoundUnder(rospack.package_paths[2])
    /\ last.op = "get_path" /\ last.arg = NameP /\ last.exc = NoExc

\* C2: whenever the snapshot is rejected, the index built afterwards equals
\* the index of a pure crawl of the configured roots.
C2_RejectedSnapshotUnused ==
    BuiltByCrawl =>
        Index = CrawlPaths(rospack.manifest_name, rospack.package_paths, 1, EmptyMap)

\* the text of the snapshot's lines, as the file holds them
SnapshotText == cache_files[rospack.cache_name].lines

\* the acceptance condition of C10, read off the file's own lines
AcceptanceCondition ==
    /\ cache_files[rospack.cache_name].exists
    /\ \E i \in DOMAIN SnapshotText : StartsWith(SnapshotText[i], RootHeader)
    /\ \E i \in DOMAIN SnapshotText : StartsWith(SnapshotText[i], PathHeader)
    /\ \A i \in DOMAIN SnapshotText :
          /\ StartsWith(SnapshotText[i], RootHeader) =>
                After(SnapshotText[i], RootHeader) = rospack.ros_root
          /\ StartsWith(SnapshotText[i], PathHeader) =>
                After(SnapshotText[i], PathHeader) = rospack.ros_package_path

\* C10: the snapshot reader reports the snapshot valid if and only if the
\* file exists, holds both header lines, and every header line's value is
\* string-equal to the configured root, respectively path list.
C10_AcceptedIff ==
    last.op = "read_cache" => (last.ret <=> AcceptanceCondition)

\* The acceptance condition does decide the reader's answer on every file
\* that ends in a newline.
AcceptedIffOnTerminatedFiles ==
    (last.op = "read_cache" /\ cache_files[rospack.cache_name].eof_newline)
        => (last.ret <=> AcceptanceCondition)

IsHeaderLine(l) == StartsWith(l, RootHeader) \/ StartsWith(l, PathHeader)

RECURSIVE SnapshotMap(_, _, _)
\* the mapping the snapshot's own lines spell out: every line that is neither
\* empty nor a header, keyed by the final component of its path, a later line
\* overwriting an earlier one
SnapshotMap(lines, i, m) ==
    IF i > Len(lines) THEN m
    ELSE IF Len(lines[i]) = 0 \/ IsHeaderLine(lines[i])
         THEN SnapshotMap(lines, i + 1, m)
         ELSE SnapshotMap(lines, i + 1, Put(m, Basename(lines[i]), lines[i]))

\* the index was built, and built from an accepted snapshot
BuiltFromSnapshot == Built /\ Len(rospack.package_paths) > 0 /\ SnapshotAccepted

\* the index, and the answers of list() and path(), are those of the mapping m
AnswersFrom(m) ==
    /\ Index = m
    /\ last.op = "list" => last.ret = DOMAIN m
    /\ last.op = "get_path" =>
          IF last.arg \in DOMAIN m
          THEN last.exc = NoExc /\ last.ret = m[last.arg]
          ELSE last.exc = ResourceNotFound

\* C11: when the snapshot is accepted no crawl is performed and the index is
\* exactly the mapping built from the snapshot's non-empty, non-header lines,
\* each keyed by the final component of its path, a later line overwriting an
\* earlier one; a resource on disk that the snapshot does not list is absent
\* from list() and path() fails for it with ResourceNotFound.
C11_SnapshotVerbatim ==
    BuiltFromSnapshot => AnswersFrom(SnapshotMap(SnapshotText, 1, EmptyMap))

\* The index is the snapshot's mapping whenever the accepted file ends in a
\* newline.
SnapshotVerbatimOnTerminatedFiles ==
    (BuiltFromSnapshot /\ cache_files[rospack.cache_name].eof_newline)
        => AnswersFrom(SnapshotMap(SnapshotText, 1, EmptyMap))

(***************************************************************************)
(* SpecIndexDrift: the directory tree and the snapshot file change while   *)
(* the instance is queried.                                                *)
(***************************************************************************)
HeaderLines == <<RootHeader \o DirA, PathHeader \o DirB>>

SnapshotOf(lines) == [exists |-> TRUE, lines |-> lines, eof_newline |-> TRUE]

\* no file, a snapshot of another configuration, and snapshots of the
\* configuration that list z, or p at another place
DriftSnapshots ==
    {NoFile,
     SnapshotOf(<<RootHeader \o <<"/", "x">>, PathHeader \o DirB,
                  <<"/", "o", "/", "z">>>>),
     SnapshotOf(HeaderLines \o <<<<"/", "o", "/", "z">>>>),
     SnapshotOf(HeaderLines \o <<<<"/", "o", "/", "p">>>>)}

InitIndexDrift ==
    /\ \E listing \in IndexListings : fs = FlatTree(listing)
    /\ \E f \in DriftSnapshots :
          cache_files = [NoCacheFiles EXCEPT !["rospack_cache"] = f]
    /\ disk = EmptyMap
    /\ \E cfg \in IndexConfigs :
          /\ rospack = RosPack(cfg)
          /\ rosstack = RosStack(cfg)
    /\ last = NoCall
    /\ first_ret = EmptyMap
    /\ drift = 0

WorldChanged == [op |-> "mutate", arg |-> <<>>, ret |-> {}, exc |-> NoExc]

\* directories appear or disappear under the roots, from outside the program
DoChangeTree ==
    /\ drift < MaxDrift
    /\ \E listing \in IndexListings :
          /\ fs # FlatTree(listing)
          /\ fs' = FlatTree(listing)
    /\ drift' = drift + 1
    /\ last' = WorldChanged
    /\ UNCHANGED <<cache_files, disk, rospack, rosstack, first_ret>>

\* the snapshot file is rewritten or removed, from outside the program
DoChangeSnapshot ==
    /\ drift < MaxDrift
    /\ \E f \in DriftSnapshots :
          /\ cache_files["rospack_cache"] # f
          /\ cache_files' = [cache_files EXCEPT !["rospack_cache"] = f]
    /\ drift' = drift + 1
    /\ last' = WorldChanged
    /\ UNCHANGED <<fs, disk, rospack, rosstack, first_ret>>

\* first_ret after get_path(name) with outcome r
FirstPath(name, r) ==
    first_ret' = IF name \notin DOMAIN first_ret
                 THEN Put(first_ret, name,
                          [ret |-> r.ret, exc |-> r.exc, drift |-> drift])
                 ELSE first_ret

\* rospack.get_path(name), its first outcome noted
DoGetPathNoted ==
    \E name \in {NameP, NameZ} :
        /\ RospackCalled("get_path", name, GetPath(rospack, name))
        /\ FirstPath(name, [exc |-> last'.exc, ret |-> last'.ret])
        /\ UNCHANGED <<world, rosstack>>

\* rospack.list() in these worlds
DoListAgain ==
    /\ RospackCalled("list", <<>>, List(rospack))
    /\ UNCHANGED <<world, rosstack, first_ret>>

NextIndexDrift == DoChangeTree \/ DoChangeSnapshot \/ DoGetPathNoted \/ DoListAgain

SpecIndexDrift == InitIndexDrift /\ [][NextIndexDrift]_vars

\* C12: once the first list() or path() call on an instance has completed,
\* no later query and no change of the filesystem or of the snapshot file
\* changes the name-to-path mapping; path(name) answers from that mapping and
\* returns the same path, or the same ResourceNotFound failure, as the first
\* time, for the instance's lifetime.
C12_IndexImmutable ==
    /\ [][Built => rospack'.location_cache = rospack.location_cache]_vars
    /\ [](last.op = "get_path" =>
            /\ Built
            /\ last.exc = LookupPath(rospack, last.arg).exc
            /\ last.ret = LookupPath(rospack, last.arg).ret
            /\ last.exc = first_ret[last.arg].exc
            /\ last.ret = first_ret[last.arg].ret)
    /\ [](last.op = "list" => Built /\ last.ret = DOMAIN Index)

\* path(p) gave /a/p before the tree changed; p is now in no root, and the
\* call that follows the change gives /a/p again.
C12_Witness ==
    /\ last.op = "get_path" /\ last.arg = NameP /\ last.exc = NoExc
    /\ last.ret = Join(DirA, NameP)
    /\ first_ret[NameP].drift = 0 /\ drift = 1
    /\ Len(rospack.package_paths) > 0
    /\ \A i \in DOMAIN rospack.package_paths :
          NameP \notin DOMAIN FoundUnder(rospack.package_paths[i])

(***************************************************************************)
(* SpecDeps: one RosPack instance over one root that holds up to three     *)
(* packages; the manifests name each other in every way the bounds allow.  *)
(***************************************************************************)
N1 == <<"n", "1">>
N2 == <<"n", "2">>
N3 == <<"n", "3">>
DepNames == {N1, N2, N3}

DepsConfig == [ros_root |-> DirA, ros_package_path |-> <<>>, package_paths |-> <<DirA>>]

\* the secondary dependencies each manifest declares
RosdepsOf(n) ==
    IF n = N1 THEN <<"r1">> ELSE IF n = N2 THEN <<"r2">> ELSE <<"r3", "r1">>

ValidManifest(depends, rosdeps) ==
    [valid |-> TRUE, depends |-> depends, rosdeps |-> rosdeps]

BrokenManifest == [valid |-> FALSE, depends |-> <<>>, rosdeps |-> <<>>]

\* N1 and N2 resolve; N3 resolves, or holds an invalid manifest, or is absent
InitGraph(depsets) ==
    \E status3 \in {"ok", "invalid", "absent"} :
      \E deps \in [DepNames -> depsets] :
        /\ fs = FlatTree([r \in {DirA} |->
                    IF status3 = "absent" THEN <<N1, N2>> ELSE <<N1, N2, N3>>])
        /\ disk = [d \in {Join(DirA, n) : n \in
                            IF status3 = "absent" THEN {N1, N2} ELSE DepNames} |->
                    IF d = Join(DirA, N3) /\ status3 = "invalid" THEN BrokenManifest
                    ELSE ValidManifest(deps[Basename(d)], RosdepsOf(Basename(d)))]
        /\ cache_files = NoCacheFiles
        /\ rospack = RosPack(DepsConfig)
        /\ rosstack = RosStack(DepsConfig)
        /\ last = NoCall
        /\ first_ret = EmptyMap
        /\ drift = 0

InitDeps == InitGraph(ListsUpTo(DepNames, MaxDeps))

\* first_ret after get_depends(name) with outcome r: the set the first
\* returning call gave, and the number of manifest changes made before it
FirstReturn(name, r) ==
    first_ret' = IF r.exc = NoExc /\ name \notin DOMAIN first_ret
                 THEN Put(first_ret, name, [ret |-> r.ret, drift |-> drift])
                 ELSE first_ret

\* rospack.get_depends(name, implicit=False)
DoDirectDepends ==
    \E name \in DepNames :
        /\ RospackCalled("direct_depends", name, GetDepends(rospack, name, FALSE))
        /\ UNCHANGED <<world, rosstack, first_ret>>

\* rospack.get_depends(name)
DoGetDepends ==
    \E name \in DepNames :
        /\ RospackCalled("get_depends", name, GetDepends(rospack, name, TRUE))
        /\ FirstReturn(name, [exc |-> last'.exc, ret |-> last'.ret])
        /\ UNCHANGED <<world, rosstack>>

\* rospack.get_rosdeps(package, implicit=False)
DoDirectRosdeps ==
    \E name \in DepNames :
        /\ RospackCalled("direct_rosdeps", name, GetRosdeps(rospack, name, FALSE))
        /\ UNCHANGED <<world, rosstack, first_ret>>

\* rospack.get_rosdeps(package)
DoGetRosdeps ==
    \E name \in DepNames :
        /\ RospackCalled("get_rosdeps", name, GetRosdeps(rospack, name, TRUE))
        /\ UNCHANGED <<world, rosstack, first_ret>>

NextDeps == DoDirectDepends \/ DoGetDepends

SpecDeps == InitDeps /\ [][NextDeps]_vars

(***************************************************************************)
(* The dependency graph the manifests on disk declare.                     *)
(***************************************************************************)
ManifestPath(n) == Join(DirA, n)

Resolves(n) == ManifestPath(n) \in DOMAIN disk /\ disk[ManifestPath(n)].valid

Edges(n) == IF Resolves(n) THEN Range(disk[ManifestPath(n)].depends) ELSE {}

RECURSIVE Closure(_)
Closure(S) ==
    IF UNION {Edges(m) : m \in S} \subseteq S THEN S
    ELSE Closure(S \cup UNION {Edges(m) : m \in S})

\* the names reachable from n by one or more depends edges
Reachable(n) == Closure(Edges(n))

Acyclic == \A n \in DepNames : n \notin Reachable(n)

AllResolve == \A n \in DepNames : Resolves(n)

Returned(op) == last.op = op /\ last.exc = NoExc

\* the outcome r of a query, if it is a set, lies within T
ReturnsWithin(r, T) == r.exc = NoExc => r.ret \subseteq T

\* C3: for every name n for which transitiveDependencies(n) returns a set T,
\* on any dependency graph and after any earlier queries, the union of
\* transitiveDependencies(m) over all m in T is a subset of T.
C3_FixedPoint ==
    Returned("get_depends") =>
        \A m \in last.ret : ReturnsWithin(ImplicitDepends(rospack, m), last.ret)

\* the names of a returned list d are members of a returned set t
ListWithin(d, t) ==
    (d.exc = NoExc /\ t.exc = NoExc) => Range(d.ret) \subseteq t.ret

\* C4: in every state reachable by any sequence of queries on one instance,
\* for every name n for which directDependencies(n) and
\* transitiveDependencies(n) both return, every name directDependencies(n)
\* returns is a member of transitiveDependencies(n).
C4_DirectInClosure ==
    \A n \in DepNames :
        ListWithin(DirectDepends(rospack, n), ImplicitDepends(rospack, n))

\* C5: when the dependency graph has no cycle and every named resource and
\* manifest resolves, transitiveDependencies(n) returns exactly the set of
\* names reachable from n by one or more depends edges, whatever queries were
\* made earlier on the instance.
C5_ExactClosure ==
    (Acyclic /\ AllResolve /\ last.op = "get_depends") =>
        (last.exc = NoExc /\ last.ret = Reachable(last.arg))

\* The chain n1 -> n2 -> n3 has been queried at n1 and gave {n2, n3}, after
\* the closure of n2 had been asked for.
C5_Witness ==
    /\ Acyclic /\ AllResolve
    /\ Edges(N1) = {N2} /\ Edges(N2) = {N3} /\ Edges(N3) = {}
    /\ Returned("get_depends") /\ last.arg = N1 /\ last.ret = {N2, N3}
    /\ N2 \in DOMAIN first_ret /\ first_ret[N2].ret = {N3}

\* The closure is exact for a name as soon as everything reachable from that
\* name resolves and lies on no cycle, whatever the rest of the graph holds.
ExactClosureWhereReachable ==
    (/\ last.op = "get_depends"
     /\ \A m \in Reachable(last.arg) \cup {last.arg} :
            Resolves(m) /\ m \notin Reachable(m))
        => (last.exc = NoExc /\ last.ret = Reachable(last.arg))

\* Within one instance the dependencies of each name are expanded at most
\* once.
ExpandedAtMostOnce ==
    \A n \in DOMAIN rospack.expansions : rospack.expansions[n] <= 1

\* C6: on any finite dependency graph, cyclic ones included,
\* transitiveDependencies(n) terminates, the dependencies of each name are
\* expanded at most once within one instance, and the returned set contains
\* every direct dependency of n.
C6_ExpandedOnceWithDirect ==
    /\ ExpandedAtMostOnce
    /\ Returned("get_depends") => Edges(last.arg) \subseteq last.ret

\* some name among n and the names reachable from n does not resolve
Unresolvable(n) == \E m \in {n} \cup Reachable(n) : ~Resolves(m)

\* C17: a failed closure query leaves no trace: the dependency closure cache
\* holds no entry for a name whose computation did not complete, and as long
\* as some name reachable from n cannot be resolved every
\* transitiveDependencies(n) fails with ResourceNotFound or InvalidManifest;
\* no query returns a set computed from an unfinished placeholder.
C17_FailureLeavesNoTrace ==
    /\ \A m \in DOMAIN rospack.depends_cache : ~Unresolvable(m)
    /\ (last.op = "get_depends" /\ Unresolvable(last.arg))
          => last.exc \in {ResourceNotFound, InvalidManifest}

\* the first closure query on an instance fails when a reachable name does
\* not resolve
FirstFailureReported ==
    (last.op = "get_depends" /\ Unresolvable(last.arg)
     /\ last.arg \notin DOMAIN rospack.depends_cache)
        => last.exc \in {ResourceNotFound, InvalidManifest}

\* what an instance over the same index and manifests that has answered no
\* query yet returns for n
FreshDepends(n) == ImplicitDepends(RosPack(DepsConfig), n)

\* C19: history independence: with every name resolving, cyclic graphs
\* included, the set transitiveDependencies(n) returns on an instance that
\* has answered any sequence of transitiveDependencies queries is the set an
\* instance with the same index and manifests returns that has answered
\* none; the closure of a name does not depend on which name was queried
\* first.
C19_HistoryIndependent ==
    (AllResolve /\ last.op = "get_depends") =>
        /\ last.exc = NoExc
        /\ FreshDepends(last.arg).exc = NoExc
        /\ last.ret = FreshDepends(last.arg).ret

\* on acyclic graphs the answers do not depend on the queries made before
HistoryIndependentOnAcyclic ==
    (AllResolve /\ Acyclic /\ last.op = "get_depends") =>
        (last.exc = NoExc /\ last.ret = FreshDepends(last.arg).ret)

(***************************************************************************)
(* SpecRosdeps: the same worlds, with the secondary dependencies queried.  *)
(***************************************************************************)
NextRosdeps == DoDirectRosdeps \/ DoGetRosdeps

SpecRosdeps == InitDeps /\ [][NextRosdeps]_vars

\* the direct secondary names of the members of a returned set t
MemberRosdeps(t) ==
    UNION {Range(DirectRosdeps(rospack, m).ret) : m \in t.ret}

\* the set the secondary closure of n is said to be, given the outcome own of
\* the direct secondary query and the outcome t of transitiveDependencies(n)
SecondaryClosure(own, t) == Range(own.ret) \cup MemberRosdeps(t)

SecondaryIsClosure(ret, own, t) ==
    (own.exc = NoExc /\ t.exc = NoExc) => ret = SecondaryClosure(own, t)

\* C8: whenever transitiveSecondary(n) returns, its result equals the direct
\* secondary names of n united with the direct secondary names of every
\* member of the set transitiveDependencies(n) returns on the same instance.
C8_SecondaryClosure ==
    Returned("get_rosdeps") =>
        SecondaryIsClosure(last.ret, DirectRosdeps(rospack, last.arg),
                           ImplicitDepends(rospack, last.arg))

\* n has no directory under the root
Absent(n) == ManifestPath(n) \notin DOMAIN disk

\* the error a query on a name that does not resolve is to fail with
ErrorOf(n) == IF Absent(n) THEN ResourceNotFound ELSE InvalidManifest

\* C18: transitiveSecondary(n) for a name n that is absent from the index, or
\* whose manifest is invalid, fails with ResourceNotFound, resp.
\* InvalidManifest, on every call, later calls on the same instance included;
\* it never returns a set for n, and the failed call leaves no entry for n in
\* the secondary closure cache.
C18_SecondaryFailsEveryTime ==
    /\ (last.op = "get_rosdeps" /\ ~Resolves(last.arg))
          => last.exc = ErrorOf(last.arg)
    /\ \A n \in DOMAIN rospack.rosdeps_cache : Resolves(n)

\* what transitiveSecondary(n) returns for such a name, when it returns, is
\* the empty placeholder
UnresolvedSecondaryIsEmpty ==
    (last.op = "get_rosdeps" /\ ~Resolves(last.arg) /\ last.exc = NoExc)
        => last.ret = {}

(***************************************************************************)
(* SpecDrift: the manifests on disk change while the instance is queried.  *)
(***************************************************************************)
\* in these worlds a manifest names at most one dependency
DriftLists == {<<>>} \cup {<<n>> : n \in DepNames}

InitDrift == InitGraph(DriftLists)

\* a manifest on disk is rewritten, or spoilt, from outside the program
DoMutateManifest ==
    /\ drift < MaxDrift
    /\ \E n \in DepNames :
         \E m \in {ValidManifest(d, RosdepsOf(n)) : d \in DriftLists}
                  \cup {BrokenManifest} :
            /\ ManifestPath(n) \in DOMAIN disk
            /\ disk[ManifestPath(n)] # m
            /\ disk' = [disk EXCEPT ![ManifestPath(n)] = m]
    /\ drift' = drift + 1
    /\ last' = [op |-> "mutate", arg |-> <<>>, ret |-> {}, exc |-> NoExc]
    /\ UNCHANGED <<fs, cache_files, rospack, rosstack, first_ret>>

NextDrift == DoMutateManifest \/ DoGetDepends \/ DoDirectDepends

SpecDrift == InitDrift /\ [][NextDrift]_vars

\* C7: once transitiveDependencies(n) has returned a set on an instance,
\* every later call of transitiveDependencies(n) on that instance returns the
\* same set, whatever queries run and whatever manifests change in between;
\* a name once keyed in the closure cache is never removed from it.
C7_Idempotent ==
    /\ []((last.op = "get_depends" /\ last.arg \in DOMAIN first_ret)
            => (last.exc = NoExc /\ last.ret = first_ret[last.arg].ret))
    /\ [][DOMAIN rospack.depends_cache \subseteq DOMAIN rospack'.depends_cache]_vars

\* n1 gave {n2} before its manifest was rewritten to name n3 instead, and the
\* call that follows the rewriting gives {n2} again.
C7_Witness ==
    /\ Returned("get_depends") /\ last.arg = N1 /\ last.ret = {N2}
    /\ first_ret[N1].drift = 0 /\ drift = 1
    /\ Edges(N1) = {N3} /\ Resolves(N3)

(***************************************************************************)
(* SpecExpand: one root that holds a stack directory s with the package    *)
(* directories x and y inside, a package directory z, and a second         *)
(* directory named s below d; which marker files they hold varies.         *)
(***************************************************************************)
NameS == <<"s">>
NameX == <<"x">>
NameY == <<"y">>
NameD == <<"d">>
NameBogus == <<"b", "o", "g", "u", "s">>

ExpandNames == {NameS, NameX, NameZ, NameBogus}

DirS == Join(DirA, NameS)
DirD == Join(DirA, NameD)

ExpandTree(sfiles, xfiles, zfiles, dsfiles) ==
    [d \in {DirA, DirS, Join(DirS, NameX), Join(DirS, NameY),
            Join(DirA, NameZ), DirD, Join(DirD, NameS)} |->
        IF d = DirA THEN [dirs |-> <<NameS, NameZ, NameD>>, files |-> {}]
        ELSE IF d = DirS THEN [dirs |-> <<NameX, NameY>>, files |-> sfiles]
        ELSE IF d = Join(DirS, NameX) THEN Leaf(xfiles)
        ELSE IF d = Join(DirS, NameY) THEN Leaf({MANIFEST_FILE})
        ELSE IF d = Join(DirA, NameZ) THEN Leaf(zfiles)
        ELSE IF d = DirD THEN [dirs |-> <<NameS>>, files |-> {}]
        ELSE Leaf(dsfiles)]

InitExpand ==
    \E sfiles \in SUBSET {STACK_FILE, MANIFEST_FILE} :
      \E xfiles \in SUBSET {MANIFEST_FILE} :
        \E zfiles \in SUBSET {MANIFEST_FILE} :
          \E dsfiles \in SUBSET {MANIFEST_FILE} :
            /\ fs = ExpandTree(sfiles, xfiles, zfiles, dsfiles)
            /\ disk = EmptyMap
            /\ cache_files = NoCacheFiles
            /\ rospack = RosPack(DepsConfig)
            /\ rosstack = RosStack(DepsConfig)
            /\ last = NoCall
            /\ first_ret = EmptyMap
            /\ drift = 0

\* the instances and the record of the call after expand_to_packages(names,
\* rospack, rosstack) with outcome r
Expanded(names, r) ==
    /\ rospack' = r.rospack
    /\ rosstack' = r.result.rosstack
    /\ last' = [op |-> "expand", arg |-> names,
                ret |-> [valid |-> r.result.valid, invalid |-> r.result.invalid],
                exc |-> NoExc]

\* expand_to_packages(names, rospack, rosstack)
DoExpand ==
    \E names \in SeqsUpTo(ExpandNames, MaxNames) :
        /\ Expanded(names, ExpandToPackages(names, rospack, rosstack))
        /\ UNCHANGED <<world, first_ret>>

\* the instance and the record of the call after a call on rosstack with
\* outcome r
RosstackCalled(op, arg, r) ==
    /\ rosstack' = r.self
    /\ last' = Call(op, arg, r)

\* rosstack.packages_of(stack)
DoPackagesOf ==
    \E stack \in {NameS, NameBogus} :
        /\ RosstackCalled("packages_of", stack, PackagesOf(rosstack, stack))
        /\ UNCHANGED <<world, rospack, first_ret>>

NextExpand == DoExpand \/ DoPackagesOf

SpecExpand == InitExpand /\ [][NextExpand]_vars

\* the known package names and the known stack names
KnownPackages == List(rospack).ret
KnownStacks == List(rosstack).ret

RECURSIVE ExpectedResolved(_, _)
\* [n] for a known package, packagesOf(n) for another name that is a known
\* stack, concatenated in input order
ExpectedResolved(names, i) ==
    IF i > Len(names) THEN <<>>
    ELSE (IF names[i] \in KnownPackages THEN <<names[i]>>
          ELSE IF names[i] \in KnownStacks THEN PackagesOf(rosstack, names[i]).ret
          ELSE <<>>) \o ExpectedResolved(names, i + 1)

RECURSIVE ExpectedUnresolved(_, _)
\* the input names that are neither a known package nor a known stack
ExpectedUnresolved(names, i) ==
    IF i > Len(names) THEN <<>>
    ELSE (IF names[i] \in KnownPackages \cup KnownStacks THEN <<>>
          ELSE <<names[i]>>) \o ExpectedUnresolved(names, i + 1)

\* C9: expand(names), for a list of names, returns (resolved, unresolved):
\* resolved is the concatenation, in input order, of [n] for each n that is a
\* known package and of packagesOf(n) for each other n that is a known stack
\* (a name that is both counts as a package); unresolved is the subsequence
\* of the input names that are neither.
C9_Expand ==
    last.op = "expand" =>
        /\ last.ret.valid = ExpectedResolved(last.arg, 1)
        /\ last.ret.invalid = ExpectedUnresolved(last.arg, 1)

\* expand([s, z]) with the stack s holding x and y gave ([x, y, z], []).
C9_Witness ==
    /\ last.op = "expand" /\ last.arg = <<NameS, NameZ>>
    /\ fs[DirS].files = {STACK_FILE}
    /\ last.ret = [valid |-> <<NameX, NameY, NameZ>>, invalid |-> <<>>]

\* expand([s]) where s names both a stack and a package elsewhere keeps s as
\* a package, and a name that is neither is unresolved.
ExpandKeepsPackage ==
    (/\ last.op = "expand" /\ last.arg = <<NameS, NameBogus>>
     /\ NameS \in KnownPackages /\ NameS \in KnownStacks)
        => last.ret = [valid |-> <<NameS>>, invalid |-> <<NameBogus>>]

(***************************************************************************)
(* SpecStack: the tree of SpecExpand, where the root too may hold a stack  *)
(* marker, indexed by a crawl or by a snapshot.                            *)
(***************************************************************************)
\* a snapshot of the configuration that lists x inside s, and z at a place
\* that is not on disk
StackSnapshot ==
    [exists |-> TRUE,
     lines |-> <<RootHeader \o DirA, PathHeader,
                 Join(DirS, NameX), <<"/", "o", "/", "z">>>>,
     eof_newline |-> TRUE]

InitStack ==
    \E afiles \in SUBSET {STACK_FILE} :
      \E sfiles \in SUBSET {STACK_FILE, MANIFEST_FILE} :
        \E xfiles \in SUBSET {STACK_FILE, MANIFEST_FILE} :
          \E zfiles \in SUBSET {MANIFEST_FILE} :
            \E f \in {NoFile, StackSnapshot} :
              /\ fs = [ExpandTree(sfiles, xfiles, zfiles, {MANIFEST_FILE})
                           EXCEPT ![DirA].files = afiles]
              /\ disk = EmptyMap
              /\ cache_files = [NoCacheFiles EXCEPT !["rospack_cache"] = f]
              /\ rospack = RosPack(DepsConfig)
              /\ rosstack = RosStack(DepsConfig)
              /\ last = NoCall
              /\ first_ret = EmptyMap
              /\ drift = 0

\* rospack.stack_of(package)
DoStackOf ==
    \E package \in {NameS, NameX, NameZ, NameBogus} :
        /\ RospackCalled("stack_of", package, StackOf(rospack, package))
        /\ UNCHANGED <<world, rosstack, first_ret>>

NextStack == DoStackOf \/ DoListAgain

SpecStack == InitStack /\ [][NextStack]_vars

\* d and the directories above it, the filesystem root left out
SelfAndAncestors(d) ==
    {SubSeq(d, 1, k) : k \in {j \in DOMAIN d : j = Len(d) \/ d[j + 1] = Slash}}

\* those of them that hold the stack marker
MarkedAbove(d) == {a \in SelfAndAncestors(d) : FileExists(a, STACK_FILE)}

\* the nearest of them: the longest path
Nearest(D) == CHOOSE a \in D : \A b \in D : Len(b) <= Len(a)

\* the stack of a package at directory d
ExpectedStack(d) ==
    IF MarkedAbove(d) = {} THEN None ELSE Some(Basename(Nearest(MarkedAbove(d))))

\* C13: stackOf(package) for a package present in the index returns "no
\* stack" and does not raise when its directory and the directories above it
\* hold no stack marker, and otherwise returns the final path component of the
\* nearest directory, the package's own or one above it below the filesystem
\* root, that holds the marker; a package absent from the index, and only
\* that, yields ResourceNotFound.
C13_StackOf ==
    last.op = "stack_of" =>
        IF last.arg \in DOMAIN Index
        THEN last.exc = NoExc /\ last.ret = ExpectedStack(Index[last.arg])
        ELSE last.exc = ResourceNotFound

\* stack_of(x) gave s: the root and s both hold the marker, x holds none.
C13_Witness ==
    /\ last.op = "stack_of" /\ last.arg = NameX /\ last.exc = NoExc
    /\ last.ret = Some(NameS)
    /\ FileExists(DirA, STACK_FILE) /\ FileExists(DirS, STACK_FILE)
    /\ ~FileExists(Join(DirS, NameX), STACK_FILE)

\* stack_of returns "no stack" for a package whose path is not on disk, and
\* for one below directories without a marker.
StackOfUnmarkedIsNone ==
    (last.op = "stack_of" /\ last.arg \in DOMAIN Index
     /\ MarkedAbove(Index[last.arg]) = {})
        => (last.exc = NoExc /\ last.ret = None)

(***************************************************************************)
(* SpecVersion: the stack directory /a/s with or without a stack manifest  *)
(* (with a version, without one, or invalid) and with or without a         *)
(* CMakeLists.txt of at most MaxCmakeLines lines.                          *)
(***************************************************************************)
MaxCmakeLines == 2

\* the lines a CMakeLists.txt is made of
CmakeLines ==
    {<<"x">>,
     <<Space>> \o Statement \o <<LParen, "1", RParen, Space>>,
     Statement \o <<Space, LParen, "2", Space, RParen>>,
     Statement \o <<LParen, RParen>>,
     Statement \o <<LParen>>,
     Statement,
     <<"#">> \o Statement \o <<LParen, "3", RParen>>}

\* the stack manifests: without version, with version 4, invalid
StackManifests ==
    {[valid |-> TRUE, version |-> <<>>, depends |-> <<>>, rosdeps |-> <<>>],
     [valid |-> TRUE, version |-> <<"4">>, depends |-> <<>>, rosdeps |-> <<>>],
     [valid |-> FALSE, version |-> <<>>, depends |-> <<>>, rosdeps |-> <<>>]}

InitVersion ==
    \E sfiles \in SUBSET {STACK_FILE, CMAKE_FILE} :
      \E m \in StackManifests :
        \E text \in SeqsUpTo(CmakeLines, MaxCmakeLines) :
          /\ fs = ExpandTree(sfiles, {MANIFEST_FILE}, {MANIFEST_FILE}, {MANIFEST_FILE})
          /\ disk = [d \in {DirS, Append(DirS, CMAKE_FILE)} |->
                        IF d = DirS THEN m ELSE [text |-> text]]
          /\ (STACK_FILE \notin sfiles => m = CHOOSE x \in StackManifests : TRUE)
          /\ (CMAKE_FILE \notin sfiles => text = <<>>)
          /\ cache_files = NoCacheFiles
          /\ rospack = RosPack(DepsConfig)
          /\ rosstack = RosStack(DepsConfig)
          /\ last = NoCall
          /\ first_ret = EmptyMap
          /\ drift = 0

\* rosstack.get_stack_version(stack)
DoGetStackVersion ==
    \E stack \in {NameS, NameBogus} :
        /\ RosstackCalled("get_stack_version", stack, GetStackVersion(rosstack, stack))
        /\ UNCHANGED <<world, rospack, first_ret>>

\* get_stack_version_by_dir(stack_dir)
DoGetStackVersionByDir ==
    \E stack_dir \in {DirS, DirD} :
        /\ last' = Call("get_stack_version_by_dir", stack_dir,
                        GetStackVersionByDir(stack_dir))
        /\ UNCHANGED <<world, rospack, rosstack, first_ret>>

NextVersion == DoGetStackVersion \/ DoGetStackVersionByDir

SpecVersion == InitVersion /\ [][NextVersion]_vars

\* the directory the last version query looked at
VersionDir == IF last.op = "get_stack_version" THEN DirS ELSE last.arg

\* a version query that got as far as the directory
VersionAsked ==
    \/ last.op = "get_stack_version_by_dir"
    \/ last.op = "get_stack_version" /\ last.exc # ResourceNotFound

\* the stack manifest's version, empty when it gives none
ManifestVersion(d) ==
    IF IsFile(d, STACK_FILE) /\ disk[d].valid THEN disk[d].version ELSE <<>>

ManifestInvalid(d) == IsFile(d, STACK_FILE) /\ ~disk[d].valid

\* the lines of the build description that hold the statement
StatementLines(d) ==
    IF ~IsFile(d, CMAKE_FILE) THEN {}
    ELSE {i \in DOMAIN CmakeText(d) :
            \E k \in DOMAIN CmakeText(d)[i] :
               /\ \A j \in 1..(k - 1) : CmakeText(d)[i][j] = Space
               /\ k + Len(Statement) - 1 <= Len(CmakeText(d)[i])
               /\ SubSeq(CmakeText(d)[i], k, k + Len(Statement) - 1) = Statement}

\* the first of them
DeclaringLine(d) ==
    CmakeText(d)[CHOOSE i \in StatementLines(d) : \A j \in StatementLines(d) : i <= j]

\* the argument of a statement is syntactically empty: its opening
\* parenthesis is followed by the closing one or by nothing
EmptyArgument(l) ==
    \E i \in DOMAIN l :
        /\ l[i] = LParen
        /\ \A j \in 1..(i - 1) : l[j] # LParen
        /\ (i + 1 \in DOMAIN l => l[i + 1] = RParen)

\* the case of C14: no manifest version, and a statement with an empty
\* argument
EmptyArgumentCase ==
    /\ VersionAsked /\ ~ManifestInvalid(VersionDir)
    /\ ManifestVersion(VersionDir) = <<>>
    /\ StatementLines(VersionDir) # {}
    /\ EmptyArgument(DeclaringLine(VersionDir))

\* C14 as stated: with no non-empty manifest version and a version-declaring
\* statement whose argument is syntactically empty, versionOf fails with a
\* parse error.
C14_EmptyArgumentFails == EmptyArgumentCase => last.exc = ValueError

\* C14, amended: a non-empty manifest version always wins over the build
\* description; without one, a version-declaring statement whose argument is
\* syntactically empty makes versionOf report no version, and it raises no
\* parse error; with neither a manifest version nor a build-description file
\* the result is no version.
C14_EmptyArgumentIsNoVersion ==
    /\ EmptyArgumentCase => (last.exc = NoExc /\ last.ret = None)
    /\ (VersionAsked /\ ManifestVersion(VersionDir) # <<>>)
          => (last.exc = NoExc /\ last.ret = Some(ManifestVersion(VersionDir)))
    /\ (VersionAsked /\ ~ManifestInvalid(VersionDir)
        /\ ManifestVersion(VersionDir) = <<>> /\ ~IsFile(VersionDir, CMAKE_FILE))
          => (last.exc = NoExc /\ last.ret = None)
    /\ VersionAsked => last.exc \in {NoExc, InvalidManifest}

\* get_stack_version(s) reported no version for a manifest without version
\* next to a CMakeLists.txt whose statement is rosbuild_make_distribution().
C14_Witness ==
    /\ last.op = "get_stack_version" /\ last.arg = NameS
    /\ EmptyArgumentCase
    /\ DeclaringLine(DirS) = Statement \o <<LParen, RParen>>
    /\ last.exc = NoExc /\ last.ret = None

\* an extractable argument is returned as it stands between the parentheses
ExtractableArgumentReturned ==
    (VersionAsked /\ ~ManifestInvalid(VersionDir)
     /\ ManifestVersion(VersionDir) = <<>> /\ StatementLines(VersionDir) # {}
     /\ DeclaringLine(VersionDir) = Statement \o <<Space, LParen, "2", Space, RParen>>)
        => (last.exc = NoExc /\ last.ret = Some(<<"2", Space>>))

(***************************************************************************)
(* SpecCrawl: list_by_path on trees with hidden directories and on trees   *)
(* with markers at every level.                                            *)
(***************************************************************************)
MaxSiblings == 3

Hidden1 == <<Dot, "h">>
Hidden2 == <<Dot, "g">>
NameR == <<"r">>

\* /a lists top; every directory of top lists inner and holds files1 of its
\* name; the directories below hold the package marker
HiddenTree(top, inner, files1) ==
    [d \in {DirA} \cup {Join(DirA, c) : c \in Range(top)}
            \cup {Join(Join(DirA, c), e) : c \in Range(top), e \in Range(inner)} |->
        IF d = DirA THEN [dirs |-> top, files |-> {}]
        ELSE IF \E c \in Range(top) : d = Join(DirA, c)
             THEN [dirs |-> inner, files |-> files1[Basename(d)]]
        ELSE Leaf({MANIFEST_FILE})]

HiddenTrees ==
    {HiddenTree(top, inner, files1) :
        top \in ListsUpTo({Hidden1, Hidden2, NameP}, MaxSiblings),
        inner \in ListsUpTo({Hidden1, Hidden2, NameR}, MaxSiblings - 1),
        files1 \in [{Hidden1, Hidden2, NameP} -> {{}, {MANIFEST_FILE}}]}

\* the files a directory of a marker tree holds
MarkerSets ==
    {{}, {MANIFEST_FILE}, {STACK_FILE}, {NOSUBDIRS_FILE}, {STACK_FILE, NOSUBDIRS_FILE}}

\* /a lists s and d in the order top; /a/s holds x, /a/d holds another s
MarkerTree(top, fa, fss, fx, fd, fds) ==
    [d \in {DirA, DirS, Join(DirS, NameX), DirD, Join(DirD, NameS)} |->
        IF d = DirA THEN [dirs |-> top, files |-> fa]
        ELSE IF d = DirS THEN [dirs |-> <<NameX>>, files |-> fss]
        ELSE IF d = Join(DirS, NameX) THEN Leaf(fx)
        ELSE IF d = DirD THEN [dirs |-> <<NameS>>, files |-> fd]
        ELSE Leaf(fds)]

MarkerTrees ==
    {MarkerTree(top, fa, fss, fx, fd, fds) :
        top \in {<<NameS, NameD>>, <<NameD, NameS>>},
        fa \in MarkerSets, fss \in MarkerSets, fx \in MarkerSets,
        fd \in MarkerSets, fds \in MarkerSets}

InitCrawl ==
    /\ fs \in HiddenTrees \cup MarkerTrees
    /\ disk = EmptyMap
    /\ cache_files = NoCacheFiles
    /\ rospack = RosPack(DepsConfig)
    /\ rosstack = RosStack(DepsConfig)
    /\ last = NoCall
    /\ first_ret = EmptyMap
    /\ drift = 0

\* list_by_path(manifest_name, path, {}): ret holds the list returned and
\* the cache as the call leaves it
DoListByPath ==
    \E manifest_name \in {MANIFEST_FILE, STACK_FILE} :
      \E path \in {DirA, DirS} :
        /\ last' = [op |-> "list_by_path",
                    arg |-> [manifest_name |-> manifest_name, path |-> path],
                    ret |-> ListByPath(manifest_name, path, EmptyMap),
                    exc |-> NoExc]
        /\ UNCHANGED <<world, rospack, rosstack, first_ret>>

NextCrawl == DoListByPath \/ DoListAgain

SpecCrawl == InitCrawl /\ [][NextCrawl]_vars

\* a crawl has returned
Crawled == last.op = "list_by_path"

\* the path d passes, below root, through a directory whose name begins
\* with '.'
ThroughHidden(root, d) ==
    \E i \in DOMAIN d : i > Len(root) + 1 /\ d[i] = Dot /\ d[i - 1] = Slash

\* C15: hidden directories are never crawled, whatever the number and the
\* listing order of the hidden and non-hidden subdirectories: a crawl of one
\* root records no resource whose path below the root passes through a
\* directory whose name begins with '.'.
C15_HiddenNeverCrawled ==
    Crawled =>
        \A n \in DOMAIN last.ret.cache :
            ~ThroughHidden(last.arg.path, last.ret.cache[n])

\* two hidden directories stand side by side in the listing of d
HiddenSideBySide(d) ==
    \E i \in DOMAIN fs[d].dirs :
        /\ i + 1 \in DOMAIN fs[d].dirs
        /\ IsHidden(fs[d].dirs[i]) /\ IsHidden(fs[d].dirs[i + 1])

\* where no listing holds two hidden directories side by side, nothing is
\* recorded through a hidden directory
HiddenSkippedWhenApart ==
    (Crawled /\ \A d \in DOMAIN fs : ~HiddenSideBySide(d))
        => \A n \in DOMAIN last.ret.cache :
              ~ThroughHidden(last.arg.path, last.ret.cache[n])

\* no listing names a hidden directory
NoHiddenDirs ==
    \A d \in DOMAIN fs : \A i \in DOMAIN fs[d].dirs : ~IsHidden(fs[d].dirs[i])

\* d is the directory a or lies below it
Under(a, d) == d = a \/ (StartsWith(d, a) /\ Len(d) > Len(a) /\ d[Len(a) + 1] = Slash)

\* d holds one of the markers that make it a leaf of a crawl for target
Stops(target, d) == fs[d].files \cap {target, MANIFEST_FILE, NOSUBDIRS_FILE} # {}

\* the directories under root that hold the target marker below no leaf
Candidates(target, root) ==
    {d \in DOMAIN fs :
        /\ Under(root, d) /\ target \in fs[d].files
        /\ \A a \in DOMAIN fs :
              (Under(root, a) /\ a # d /\ Under(a, d)) => ~Stops(target, a)}

\* d comes before e in the top-down walk: it is above e, or it lies under a
\* directory listed before the one e lies under
VisitedBefore(d, e) ==
    \/ d # e /\ Under(d, e)
    \/ \E c \in DOMAIN fs : \E i, j \in DOMAIN fs[c].dirs :
          /\ i < j
          /\ Under(Join(c, fs[c].dirs[i]), d)
          /\ Under(Join(c, fs[c].dirs[j]), e)

\* the candidate named n that the walk visits first
FirstCandidate(target, root, n) ==
    CHOOSE d \in Candidates(target, root) :
        /\ Basename(d) = n
        /\ \A e \in Candidates(target, root) :
              (Basename(e) = n /\ e # d) => VisitedBefore(d, e)

CandidateNames(target, root) == {Basename(d) : d \in Candidates(target, root)}

\* C16: in a crawl of one root over a tree without hidden directories, a
\* directory is recorded if and only if it holds the target marker and no
\* proper ancestor of it inside the crawl root holds the target marker, the
\* generic resource marker or the rospack_nosubdirs marker (so nothing below
\* such a leaf is recorded), and of the candidates that share a final path
\* component only the one the top-down walk visits first is recorded.
C16_PruningRules ==
    (Crawled /\ NoHiddenDirs) =>
        /\ DOMAIN last.ret.cache = CandidateNames(last.arg.manifest_name, last.arg.path)
        /\ \A n \in DOMAIN last.ret.cache :
              last.ret.cache[n] =
                  FirstCandidate(last.arg.manifest_name, last.arg.path, n)
        /\ Range(last.ret.resources) = DOMAIN last.ret.cache
        /\ Len(last.ret.resources) = Cardinality(DOMAIN last.ret.cache)

\* a crawl of /a for stacks, d listed before s: /a/d/s and /a/s both hold the
\* stack marker and so does /a/s/x; only /a/d/s is recorded.
C16_Witness ==
    /\ Crawled /\ NoHiddenDirs
    /\ last.arg = [manifest_name |-> STACK_FILE, path |-> DirA]
    /\ fs[DirA].dirs = <<NameD, NameS>>
    /\ {DirS, Join(DirD, NameS)} \subseteq Candidates(STACK_FILE, DirA)
    /\ STACK_FILE \in fs[Join(DirS, NameX)].files
    /\ last.ret.resources = <<NameS>>
    /\ last.ret.cache[NameS] = Join(DirD, NameS)

====
